---- MODULE Spec2Model ----
(***************************************************************************)
(* Model of app.py: the warranty failure forecasting script.  One run of   *)
(* the script is a straight line: build the failure records, build the     *)
(* censored records, concatenate and compute durations, fit the Weibull    *)
(* model, read the horizon slider, forecast the historical cohorts, the    *)
(* optional future cohorts, and aggregate by calendar month.               *)
(*                                                                         *)
(* Dates.  A timestamp is <<ym, day>>: ym counts calendar months from      *)
(* January 2011 (ym = 0) and day is the day of the month.  NaT, the        *)
(* missing timestamp of pandas, is <<>>.  A duration in days is <<n>>, and *)
(* NaN, the missing duration, is <<>>.                                     *)
(*                                                                         *)
(* Probabilities.  A cumulative density is an integer count of 1/Denom,    *)
(* so expected_failures is in units of 1/Denom failures as well.           *)
(***************************************************************************)
EXTENDS Integers, Sequences, FiniteSets

VARIABLES pc, error, sales_data, returns_data, future_sales_file,
          failure_records, censored_records, lifetime_df, wf, months_ahead,
          forecast_df, future_forecast_df, monthly_forecast, displayed

vars == <<pc, error, sales_data, returns_data, future_sales_file,
          failure_records, censored_records, lifetime_df, wf, months_ahead,
          forecast_df, future_forecast_df, monthly_forecast, displayed>>

----------------------------------------------------------------------------
\* Bounds of the model.

\* Most rows in a sales table.
MaxCohorts == 2
\* Most rows in a future sales table.
MaxFutureCohorts == 1
\* Most rows in the uploaded returns table.
MaxReturns == 2
\* Largest quantity_in_service of a cohort row.
MaxUnits == 2
\* Largest horizon the slider is moved to.
MaxHorizon == 2
\* Resolution of a probability: cumulative densities are k/Denom.
Denom == 2

----------------------------------------------------------------------------
\* Timestamps.

NaT == <<>>
NaN == <<>>

Min(a, b) == IF a <= b THEN a ELSE b
Max(a, b) == IF a >= b THEN a ELSE b

IsLeap(y) == ((y % 4) = 0 /\ (y % 100) # 0) \/ (y % 400) = 0

DaysInMonth(ym) ==
    LET y  == 2011 + (ym \div 12)
        mo == (ym % 12) + 1
    IN  IF mo = 2 THEN (IF IsLeap(y) THEN 29 ELSE 28)
        ELSE IF mo \in {4, 6, 9, 11} THEN 30 ELSE 31

RECURSIVE DaysBefore(_)
DaysBefore(ym) == IF ym <= 0 THEN 0 ELSE DaysBefore(ym - 1) + DaysInMonth(ym - 1)

\* The day count of a timestamp, from 2010-12-31.
DayNumber(d) == DaysBefore(d[1]) + d[2]

\* pd.to_datetime("2011-09-01")
cutoff_date == <<8, 1>>

\* timestamp + pd.DateOffset(months=n): the month moves on by n and the day of the
\* month is kept, cut to the last day of the new month; NaT stays NaT.
DateOffset(d, n) ==
    IF d = NaT THEN NaT
    ELSE LET ym == d[1] + n IN <<ym, Min(d[2], DaysInMonth(ym))>>

\* (event_date - in_service).dt.days: NaN when either side is NaT.
DurationDays(event_date, in_service) ==
    IF event_date = NaT \/ in_service = NaT THEN NaN
    ELSE <<DayNumber(event_date) - DayNumber(in_service)>>

\* a == b on timestamps: NaT equals nothing, itself included.
DateEq(a, b) == a # NaT /\ b # NaT /\ a = b

----------------------------------------------------------------------------
\* The uploaded tables.

\* The rows the sales tables are drawn from: a cohort of 2011-01-31 with every unit
\* count (a negative one included), one installed after the cutoff, and one whose
\* date cell is empty.
SalesRows ==
    {[date_in_service |-> <<0, 31>>, quantity_in_service |-> u] : u \in (-1)..MaxUnits}
    \cup {[date_in_service |-> <<9, 1>>, quantity_in_service |-> 1],
          [date_in_service |-> NaT, quantity_in_service |-> 1]}

\* The rows the returns tables are drawn from: returns of the 2011-01-31 cohort on
\* 2011-06-30 of one unit and of two, one dated before the installation, one with an
\* empty return date and one with an empty installation date.
ReturnRows ==
    {[date_in_service |-> <<0, 31>>, date_of_return |-> <<5, 30>>,
      quantity_returned |-> q] : q \in {1, 2}}
    \cup {[date_in_service |-> <<0, 31>>, date_of_return |-> <<0, 1>>,
           quantity_returned |-> 1],
          [date_in_service |-> <<0, 31>>, date_of_return |-> NaT,
           quantity_returned |-> 1],
          [date_in_service |-> NaT, date_of_return |-> <<5, 30>>,
           quantity_returned |-> 1]}

\* The sales rows with the installation on or before the cutoff, or missing.
EarlySalesRows == {r \in SalesRows : r.date_in_service # <<9, 1>>}

\* The rows the future sales tables are drawn from.
FutureRows ==
    {[date_in_service |-> <<0, 30>>, quantity_in_service |-> 1],
     [date_in_service |-> <<9, 1>>, quantity_in_service |-> MaxUnits]}

SeqsUpTo(S, n) == UNION {[1..k -> S] : k \in 0..n}

----------------------------------------------------------------------------
\* Lines 27-35: one failure record per returned unit.

RECURSIVE Repeat(_, _)
\* for _ in range(n): append(x).  range(n) is empty for n <= 0.
Repeat(x, n) == IF n <= 0 THEN <<>> ELSE <<x>> \o Repeat(x, n - 1)

FailureRecord(row) ==
    [in_service |-> row.date_in_service, event_date |-> row.date_of_return,
     event_observed |-> 1]

RECURSIVE FailureRecords(_)
FailureRecords(returns) ==
    IF returns = <<>> THEN <<>>
    ELSE Repeat(FailureRecord(Head(returns)), Head(returns).quantity_returned)
         \o FailureRecords(Tail(returns))

----------------------------------------------------------------------------
\* Lines 37-51: the censored records of every cohort row.

RECURSIVE TotalReturned(_, _)
\* returns_data[returns_data["date_in_service"] == d]["quantity_returned"].sum()
TotalReturned(returns, d) ==
    IF returns = <<>> THEN 0
    ELSE (IF DateEq(Head(returns).date_in_service, d)
          THEN Head(returns).quantity_returned ELSE 0)
         + TotalReturned(Tail(returns), d)

\* int(row["quantity_in_service"] - total_returned): both are integers.
NumCensored(row, returns) ==
    row.quantity_in_service - TotalReturned(returns, row.date_in_service)

CensoredRecord(row) ==
    [in_service |-> row.date_in_service, event_date |-> cutoff_date,
     event_observed |-> 0]

RECURSIVE CensoredRecords(_, _)
CensoredRecords(sales, returns) ==
    IF sales = <<>> THEN <<>>
    ELSE Repeat(CensoredRecord(Head(sales)), NumCensored(Head(sales), returns))
         \o CensoredRecords(Tail(sales), returns)

----------------------------------------------------------------------------
\* Lines 54-73: concatenate, compute the durations, drop the missing ones.

WithDuration(r) ==
    [in_service |-> r.in_service, event_date |-> r.event_date,
     event_observed |-> r.event_observed,
     duration |-> DurationDays(r.event_date, r.in_service)]

\* dropna(subset=['event_date', 'duration']) keeps a row with neither missing.
KeptByDropna(r) == r.event_date # NaT /\ r.duration # NaN

LifetimeDf(failures, censored) ==
    LET all == failures \o censored
    IN  SelectSeq([i \in 1..Len(all) |-> WithDuration(all[i])], KeptByDropna)

----------------------------------------------------------------------------
\* Lines 81-82: WeibullFitter().fit.  The optimiser is the lifelines library's; the
\* script checks nothing before the call and catches nothing after it, so the call
\* either raises or leaves a fitted distribution.  A fitted distribution is kept as
\* its cumulative density at 0, 30, 60, ... days: fitted[k + 1] is the density at
\* 30 * k days, in units of 1/Denom.  A Weibull cumulative density is 0 at 0 days
\* and never decreases.

WeibullCdfs ==
    {c \in [1..(MaxHorizon + 1) -> 0..Denom] :
        c[1] = 0 /\ \A k \in 1..MaxHorizon : c[k] <= c[k + 1]}

\* wf.cumulative_density_at_times(t).values[0], for t a multiple of 30.
CumulativeDensityAtTimes(fitted, t) == fitted[(t \div 30) + 1]

----------------------------------------------------------------------------
\* Line 104: st.slider("Select Forecast Horizon (in months)", 1, 36, 12)

SliderMin == 1
SliderMax == 36

SliderValues == SliderMin..Min(SliderMax, MaxHorizon)

----------------------------------------------------------------------------
\* Lines 106-124: forecast_failures_by_cohort.

\* A bucket probability that forgets to subtract the density at the bucket's start.
BucketProbNoSubtract(fitted, month) ==
    Max(CumulativeDensityAtTimes(fitted, month * 30), 0)

\* Lines 112-116: the probability of failing in the month-th 30-day bucket.
BucketProb(fitted, month) ==
    LET t1 == (month - 1) * 30
        t2 == month * 30
        p1 == CumulativeDensityAtTimes(fitted, t1)
        p2 == CumulativeDensityAtTimes(fitted, t2)
    IN  Max(p2 - p1, 0)

\* Lines 117-123: the record appended for one cohort row and one month.
ForecastRecord(row, month, fitted) ==
    [cohort_in_service |-> row.date_in_service,
     forecast_month    |-> DateOffset(row.date_in_service, month),
     expected_failures |-> row.quantity_in_service * BucketProb(fitted, month)]

\* A month loop that stops one month early: range(1, months_ahead).
MonthRangeShort(horizon) == 1..(horizon - 1)

\* Line 111: for month in range(1, months_ahead + 1)
MonthRange(horizon) == 1..horizon

CohortForecasts(row, horizon, fitted) ==
    LET months == MonthRange(horizon)
    IN  [m \in 1..Cardinality(months) |-> ForecastRecord(row, m, fitted)]

RECURSIVE forecast_failures_by_cohort(_, _, _)
forecast_failures_by_cohort(sales_df, horizon, fitted) ==
    IF sales_df = <<>> THEN <<>>
    ELSE CohortForecasts(Head(sales_df), horizon, fitted)
         \o forecast_failures_by_cohort(Tail(sales_df), horizon, fitted)

----------------------------------------------------------------------------
\* Line 144: forecast_df.groupby("forecast_month")["expected_failures"].sum()
\* groupby sorts the group keys and leaves out the rows whose key is missing.

GroupKeys(df) == {df[i].forecast_month : i \in 1..Len(df)} \ {NaT}

DateLess(a, b) == a[1] < b[1] \/ (a[1] = b[1] /\ a[2] < b[2])

RECURSIVE SortedDates(_)
SortedDates(S) ==
    IF S = {} THEN <<>>
    ELSE LET first == CHOOSE x \in S : \A y \in S : x = y \/ DateLess(x, y)
         IN  <<first>> \o SortedDates(S \ {first})

RECURSIVE SumExpected(_, _)
\* The sum of expected_failures over the rows of df whose forecast_month is key.
SumExpected(df, key) ==
    IF df = <<>> THEN 0
    ELSE (IF Head(df).forecast_month = key THEN Head(df).expected_failures ELSE 0)
         + SumExpected(Tail(df), key)

MonthlyForecast(df) ==
    LET keys == SortedDates(GroupKeys(df))
    IN  [i \in 1..Len(keys) |->
            [forecast_month    |-> keys[i],
             expected_failures |-> SumExpected(df, keys[i])]]

----------------------------------------------------------------------------
\* The script, one action per block.  Init is the state after line 24: both files
\* are uploaded and read, and "Data successfully loaded." is shown.

NoFile == [uploaded |-> FALSE, rows |-> <<>>]

InitialRest ==
    /\ pc = "build_failures"
    /\ error = "none"
    /\ failure_records = <<>>
    /\ censored_records = <<>>
    /\ lifetime_df = <<>>
    /\ wf = <<>>
    /\ months_ahead = 0
    /\ forecast_df = <<>>
    /\ future_forecast_df = <<>>
    /\ monthly_forecast = <<>>
    /\ displayed = << <<"Data successfully loaded.", 0>> >>

\* The uploads explored: every returns table against at most one cohort and no
\* future file, and every sales table and future file against one return.
InitReturnsVary ==
    /\ sales_data \in SeqsUpTo(SalesRows, 1)
    /\ returns_data \in SeqsUpTo(ReturnRows, MaxReturns)
    /\ future_sales_file = NoFile

InitCohortsVary ==
    /\ sales_data \in SeqsUpTo(EarlySalesRows, MaxCohorts)
    /\ returns_data = << [date_in_service |-> <<0, 31>>, date_of_return |-> <<5, 30>>,
                          quantity_returned |-> 1] >>
    /\ future_sales_file \in
           {NoFile} \cup [uploaded : {TRUE}, rows : SeqsUpTo(FutureRows, MaxFutureCohorts)]

Init == (InitReturnsVary \/ InitCohortsVary) /\ InitialRest

\* Lines 27-35.
BuildFailures ==
    /\ pc = "build_failures"
    /\ failure_records' = FailureRecords(returns_data)
    /\ pc' = "build_censored"
    /\ UNCHANGED <<error, sales_data, returns_data, future_sales_file,
                   censored_records, lifetime_df, wf, months_ahead, forecast_df,
                   future_forecast_df, monthly_forecast, displayed>>

\* Lines 37-51.
BuildCensored ==
    /\ pc = "build_censored"
    /\ censored_records' = CensoredRecords(sales_data, returns_data)
    /\ pc' = "durations"
    /\ UNCHANGED <<error, sales_data, returns_data, future_sales_file,
                   failure_records, lifetime_df, wf, months_ahead, forecast_df,
                   future_forecast_df, monthly_forecast, displayed>>

\* Lines 54-73, when there is at least one record.
ComputeDurations ==
    /\ pc = "durations"
    /\ failure_records \o censored_records # <<>>
    /\ lifetime_df' = LifetimeDf(failure_records, censored_records)
    /\ pc' = "fit"
    /\ UNCHANGED <<error, sales_data, returns_data, future_sales_file,
                   failure_records, censored_records, wf, months_ahead, forecast_df,
                   future_forecast_df, monthly_forecast, displayed>>

\* Lines 54-68, when there is no record at all: both frames are built from empty
\* lists and have no columns, and lifetime_df["event_date"] raises KeyError.
ComputeDurationsNoColumns ==
    /\ pc = "durations"
    /\ failure_records \o censored_records = <<>>
    /\ pc' = "error"
    /\ error' = "KeyError"
    /\ UNCHANGED <<sales_data, returns_data, future_sales_file, failure_records,
                   censored_records, lifetime_df, wf, months_ahead, forecast_df,
                   future_forecast_df, monthly_forecast, displayed>>

\* Lines 81-97: the fit returns, and the parameters and the survival plot are shown.
FitReturns ==
    /\ pc = "fit"
    /\ wf' \in WeibullCdfs
    /\ displayed' = displayed \o << <<"Estimated Weibull Parameters", 0>>,
                                    <<"Survival Function", 0>> >>
    /\ pc' = "slider"
    /\ UNCHANGED <<error, sales_data, returns_data, future_sales_file,
                   failure_records, censored_records, lifetime_df, months_ahead,
                   forecast_df, future_forecast_df, monthly_forecast>>

\* Line 82: the fit raises, and the script ends there.
FitRaises ==
    /\ pc = "fit"
    /\ pc' = "error"
    /\ error' = "fit"
    /\ UNCHANGED <<sales_data, returns_data, future_sales_file, failure_records,
                   censored_records, lifetime_df, wf, months_ahead, forecast_df,
                   future_forecast_df, monthly_forecast, displayed>>

\* Line 104.
SelectHorizon ==
    /\ pc = "slider"
    /\ months_ahead' \in SliderValues
    /\ pc' = "forecast"
    /\ UNCHANGED <<error, sales_data, returns_data, future_sales_file,
                   failure_records, censored_records, lifetime_df, wf, forecast_df,
                   future_forecast_df, monthly_forecast, displayed>>

\* Line 126.
ForecastHistorical ==
    /\ pc = "forecast"
    /\ forecast_df' = forecast_failures_by_cohort(sales_data, months_ahead, wf)
    /\ pc' = "future"
    /\ UNCHANGED <<error, sales_data, returns_data, future_sales_file,
                   failure_records, censored_records, lifetime_df, wf, months_ahead,
                   future_forecast_df, monthly_forecast, displayed>>

\* A call at line 130 that passes the smallest horizon, not the slider's value.
FutureMonthsAheadSmallest == SliderMin

\* Line 130: months_ahead=months_ahead, the horizon passed for the future cohorts.
FutureMonthsAhead == months_ahead

\* Lines 128-131, with a future sales file.
ForecastFuture ==
    /\ pc = "future"
    /\ future_sales_file.uploaded
    /\ LET future_sales == future_sales_file.rows
           future == forecast_failures_by_cohort(future_sales, FutureMonthsAhead, wf)
       IN  /\ future_forecast_df' = future
           /\ forecast_df' = forecast_df \o future
    /\ pc' = "aggregate"
    /\ UNCHANGED <<error, sales_data, returns_data, future_sales_file,
                   failure_records, censored_records, lifetime_df, wf, months_ahead,
                   monthly_forecast, displayed>>

\* Line 128, without one.
NoFutureSales ==
    /\ pc = "future"
    /\ ~future_sales_file.uploaded
    /\ pc' = "aggregate"
    /\ UNCHANGED <<error, sales_data, returns_data, future_sales_file,
                   failure_records, censored_records, lifetime_df, wf, months_ahead,
                   forecast_df, future_forecast_df, monthly_forecast, displayed>>

\* Lines 133-156: the forecast is shown, aggregated by month, plotted and offered
\* as a CSV download.
Aggregate ==
    /\ pc = "aggregate"
    /\ forecast_df # <<>>
    /\ monthly_forecast' = MonthlyForecast(forecast_df)
    /\ displayed' = displayed \o
           << <<"Forecasted Failures by Cohort", Len(forecast_df)>>,
              <<"Forecasted Failures by Cohort (Total Counts)", Len(forecast_df)>>,
              <<"Forecasted Failures by Calendar Month",
                Len(MonthlyForecast(forecast_df))>>,
              <<"Download Forecast CSV", Len(forecast_df)>> >>
    /\ pc' = "done"
    /\ UNCHANGED <<error, sales_data, returns_data, future_sales_file,
                   failure_records, censored_records, lifetime_df, wf, months_ahead,
                   forecast_df, future_forecast_df>>

\* Lines 133-144, when no record was forecast: the frame is built from an empty
\* list and has no columns, and groupby("forecast_month") raises KeyError.
AggregateNoColumns ==
    /\ pc = "aggregate"
    /\ forecast_df = <<>>
    /\ displayed' = displayed \o
           << <<"Forecasted Failures by Cohort", 0>>,
              <<"Forecasted Failures by Cohort (Total Counts)", 0>> >>
    /\ pc' = "error"
    /\ error' = "KeyError"
    /\ UNCHANGED <<sales_data, returns_data, future_sales_file, failure_records,
                   censored_records, lifetime_df, wf, months_ahead, forecast_df,
                   future_forecast_df, monthly_forecast>>

Next ==
    \/ BuildFailures
    \/ BuildCensored
    \/ ComputeDurations
    \/ ComputeDurationsNoColumns
    \/ FitReturns
    \/ FitRaises
    \/ SelectHorizon
    \/ ForecastHistorical
    \/ ForecastFuture
    \/ NoFutureSales
    \/ Aggregate
    \/ AggregateNoColumns

Spec == Init /\ [][Next]_vars

----------------------------------------------------------------------------
\* What the claims are stated with.

\* The Builder has run: both record lists are built.
PastBuilder == pc \notin {"build_failures", "build_censored"}

\* The historical forecast (line 126) has run.
PastForecast ==
    pc \in {"future", "aggregate", "done"} \/ (pc = "error" /\ months_ahead # 0)

\* The block of the future sales file (lines 128-131) is behind.
PastFuture == pc \in {"aggregate", "done"} \/ (pc = "error" /\ months_ahead # 0)

\* The number of records of recs with the installation date d.
RECURSIVE CountInService(_, _)
CountInService(recs, d) ==
    IF recs = <<>> THEN 0
    ELSE (IF Head(recs).in_service = d THEN 1 ELSE 0) + CountInService(Tail(recs), d)

RECURSIVE TotalExpected(_)
TotalExpected(df) ==
    IF df = <<>> THEN 0 ELSE Head(df).expected_failures + TotalExpected(Tail(df))

\* The sales table is as the data model has it: one row per installation date, no
\* missing date, no negative count.
WellFormedCohorts ==
    /\ \A i \in 1..Len(sales_data) :
          /\ sales_data[i].date_in_service # NaT
          /\ sales_data[i].quantity_in_service >= 0
    /\ \A i, j \in 1..Len(sales_data) :
          sales_data[i].date_in_service = sales_data[j].date_in_service => i = j

\* Some cohort has more units returned than installed.
OverReturned ==
    \E i \in 1..Len(sales_data) :
        /\ sales_data[i].quantity_in_service >= 0
        /\ TotalReturned(returns_data, sales_data[i].date_in_service)
               > sales_data[i].quantity_in_service

\* The records of the Builder with a missing installation or event date.
NumMalformed ==
    LET all == failure_records \o censored_records
    IN  Cardinality({i \in 1..Len(all) :
                        all[i].in_service = NaT \/ all[i].event_date = NaT})

\* The records the forecast of table over horizon months holds for its i-th row.
RecordsOfCohort(df, i, horizon) == SubSeq(df, (i - 1) * horizon + 1, i * horizon)

\* The historical rows' part of forecast_df: its first rows x months_ahead records.
HistoricalPart ==
    SubSeq(forecast_df, 1, Min(Len(forecast_df), Len(sales_data) * months_ahead))

\* The dataset handed to the fit has an observed failure and only positive
\* durations: nothing about it keeps a Weibull fit from converging.
FitWellPosed ==
    /\ \E i \in 1..Len(lifetime_df) : lifetime_df[i].event_observed = 1
    /\ \A i \in 1..Len(lifetime_df) : lifetime_df[i].duration[1] > 0

\* Every record of df, the forecast of table, is within its cohort's unit count, and
\* so is a cohort's total.  Expected failures and unit counts are in 1/Denom.
ForecastBounded(table, df) ==
    \A i \in 1..Len(table) :
        table[i].quantity_in_service >= 0 =>
            LET recs  == RecordsOfCohort(df, i, months_ahead)
                units == table[i].quantity_in_service * Denom
            IN  /\ \A k \in 1..Len(recs) :
                      0 <= recs[k].expected_failures /\ recs[k].expected_failures <= units
                /\ TotalExpected(recs) <= units

\* date is d0 moved on by m calendar months: the month index moves by m, the day of
\* the month is kept when the new month has it and is that month's last day when
\* not; a missing d0 gives a missing date.
IsMonthsAfter(date, d0, m) ==
    IF d0 = NaT THEN date = NaT
    ELSE /\ date # NaT
         /\ date[1] = d0[1] + m
         /\ \/ date[2] = d0[2] /\ d0[2] <= DaysInMonth(date[1])
            \/ date[2] = DaysInMonth(date[1]) /\ d0[2] > DaysInMonth(date[1])

\* df holds one record per row of table and month 1..horizon, in that order, each
\* with the cohort's date and the month's date.
OnePerCohortMonth(table, df, horizon) ==
    /\ Len(df) = Len(table) * horizon
    /\ \A i \in 1..Len(table) : \A m \in 1..horizon :
          LET rec == df[(i - 1) * horizon + m]
          IN  /\ rec.cohort_in_service = table[i].date_in_service
              /\ IsMonthsAfter(rec.forecast_month, table[i].date_in_service, m)

----------------------------------------------------------------------------
\* C1: after the Builder, for every cohort row of a well-formed sales table, the
\* failure records plus the censored records carrying the cohort's installation
\* date number the cohort's units installed.
C1_CensoringAccounting ==
    (PastBuilder /\ WellFormedCohorts) =>
        \A i \in 1..Len(sales_data) :
            CountInService(failure_records, sales_data[i].date_in_service)
              + CountInService(censored_records, sales_data[i].date_in_service)
            = sales_data[i].quantity_in_service

\* C2: every forecast record of a cohort with a non-negative unit count has
\* 0 <= expected_failures <= units, and the cohort's records over months
\* 1..months_ahead sum to at most its units; for the historical and the future table.
C2_ForecastBounded ==
    /\ PastForecast => ForecastBounded(sales_data, HistoricalPart)
    /\ (PastFuture /\ future_sales_file.uploaded) =>
           ForecastBounded(future_sales_file.rows, future_forecast_df)

\* C2's case: a finished run over at least two months in which a cohort with units
\* fails in every month and all of its units are expected to fail.
C2_Witness ==
    /\ pc = "done"
    /\ FitWellPosed
    /\ months_ahead >= 2
    /\ \E i \in 1..Len(sales_data) :
          LET recs == RecordsOfCohort(forecast_df, i, months_ahead)
          IN  /\ sales_data[i].quantity_in_service >= 1
              /\ \A k \in 1..Len(recs) : recs[k].expected_failures > 0
              /\ TotalExpected(recs) = sales_data[i].quantity_in_service * Denom

\* C3: when a cohort has more units returned than installed, the Builder ends in a
\* DataConsistencyError: the run stops there, with no lifetime dataset, fit or
\* forecast after it.
C3_OverReturnIsAnError ==
    (PastBuilder /\ OverReturned) =>
        (pc = "error" /\ error = "DataConsistencyError" /\ censored_records = <<>>)

\* C4: every observation handed to the fit has a duration that is not missing and is
\* not negative.
C4_FittedDurationsNonNegative ==
    \A i \in 1..Len(lifetime_df) :
        lifetime_df[i].duration # NaN /\ lifetime_df[i].duration[1] >= 0

\* C6: the forecast holds exactly one record per cohort row and month 1..months_ahead
\* (months_ahead records per cohort, rows x months_ahead in all), the record of
\* month m carrying the cohort's date d0 and the date d0 + m calendar months; for the
\* historical and the future table.
C6_OneRecordPerCohortMonth ==
    /\ PastForecast => OnePerCohortMonth(sales_data, HistoricalPart, months_ahead)
    /\ pc = "future" => Len(forecast_df) = Len(sales_data) * months_ahead
    /\ (PastFuture /\ future_sales_file.uploaded) =>
           OnePerCohortMonth(future_sales_file.rows, future_forecast_df, months_ahead)
    /\ PastFuture =>
           Len(forecast_df) = (Len(sales_data) + Len(future_sales_file.rows)) * months_ahead

\* C6's case: a finished forecast of two cohorts over two months in which the cohort
\* of 2011-01-31 has its first month on 2011-02-28 and its second on 2011-03-31.
C6_Witness ==
    /\ pc = "done"
    /\ FitWellPosed
    /\ Len(sales_data) = 2
    /\ months_ahead = 2
    /\ \E k \in 1..(Len(forecast_df) - 1) :
          /\ forecast_df[k].cohort_in_service = <<0, 31>>
          /\ forecast_df[k].forecast_month = <<1, 28>>
          /\ forecast_df[k + 1].forecast_month = <<2, 31>>

\* C7: the records with a missing installation or event date are left out of the
\* dataset handed to the fit, and their number is among what the run shows.
C7_DroppedCountReported ==
    (PastBuilder /\ pc # "durations") =>
        /\ \A i \in 1..Len(lifetime_df) :
              lifetime_df[i].in_service # NaT /\ lifetime_df[i].event_date # NaT
        /\ NumMalformed > 0 =>
              \E k \in 1..Len(displayed) : displayed[k] = <<"Dropped records", NumMalformed>>

\* C8: a forecast over a sales table with a negative unit count ends in an
\* InvalidForecastRequestError and returns no record (stated for the runs whose
\* fit is well posed and gives a positive density at 30 days).
C8_NegativeUnitsRejected ==
    (PastForecast /\ FitWellPosed /\ wf[2] > 0
       /\ \E i \in 1..Len(sales_data) : sales_data[i].quantity_in_service < 0) =>
        (pc = "error" /\ error = "InvalidForecastRequestError" /\ forecast_df = <<>>)

\* C9: the monthly aggregate has exactly one row per forecast month of the records,
\* each row's value is the sum of the expected failures of the records of that month,
\* and the rows' values sum to the expected failures of all records (stated for the
\* runs whose fit is well posed).
C9_AggregatePreservesTotal ==
    (pc = "done" /\ FitWellPosed) =>
        /\ \A i \in 1..Len(forecast_df) :
              forecast_df[i].forecast_month # NaT =>
                  Cardinality({k \in 1..Len(monthly_forecast) :
                      monthly_forecast[k].forecast_month = forecast_df[i].forecast_month}) = 1
        /\ \A k \in 1..Len(monthly_forecast) :
              /\ \E i \in 1..Len(forecast_df) :
                    forecast_df[i].forecast_month = monthly_forecast[k].forecast_month
              /\ monthly_forecast[k].expected_failures
                     = SumExpected(forecast_df, monthly_forecast[k].forecast_month)
        /\ TotalExpected(monthly_forecast) = TotalExpected(forecast_df)

\* C10, as claimed: the future cohorts are forecast over a horizon of their own,
\* supplied apart from the historical one, so whatever horizon h is supplied for
\* them, each future cohort has h records (stated for the runs whose fit is well
\* posed).
C10_FutureOwnHorizon ==
    (PastFuture /\ FitWellPosed /\ future_sales_file.uploaded) =>
        \A h \in SliderValues :
            Len(future_forecast_df) = Len(future_sales_file.rows) * h

\* C10, amended: with a future sales file the forecast becomes the historical
\* records followed by the future cohorts' records, which the same procedure gives
\* over the same horizon months_ahead (months_ahead records per future cohort, each
\* units x the bucket's density difference); without one it stays the historical
\* forecast.
C10_FutureSameHorizon ==
    [][pc = "future" =>
          IF future_sales_file.uploaded
          THEN /\ forecast_df' = forecast_df \o future_forecast_df'
               /\ Len(future_forecast_df') = Len(future_sales_file.rows) * months_ahead
               /\ \A j \in 1..Len(future_sales_file.rows) : \A m \in 1..months_ahead :
                     LET rec == future_forecast_df'[(j - 1) * months_ahead + m]
                         row == future_sales_file.rows[j]
                     IN  /\ rec.cohort_in_service = row.date_in_service
                         /\ rec.expected_failures
                                = row.quantity_in_service * Max(wf[m + 1] - wf[m], 0)
          ELSE forecast_df' = forecast_df /\ future_forecast_df' = <<>>]_vars

\* C10's case: a finished run over two months with historical cohorts and a future
\* cohort whose records are not all zero.
C10_Witness ==
    /\ pc = "done"
    /\ FitWellPosed
    /\ months_ahead = 2
    /\ sales_data # <<>>
    /\ future_sales_file.uploaded
    /\ Len(future_forecast_df) = 2 * Len(future_sales_file.rows)
    /\ \E k \in 1..Len(future_forecast_df) : future_forecast_df[k].expected_failures > 0

====
